---- MODULE Spec2Model ----
(***************************************************************************)
(* The Simulation tab of saponification_app.py (lines 585-679): the        *)
(* sidebar inputs, the Arrhenius rate constant k_sim, the advisory         *)
(* warning, and the per-condition loop that overlays each experimental     *)
(* curve with the odeint solution of dC/dt = -k*C**2.                      *)
(*                                                                         *)
(* Numbers.  The script computes in IEEE doubles; the model computes in    *)
(* fixed point, rounding after each operation:                             *)
(*   A_input            in units of 1/AScale   (0.5 is 1)                  *)
(*   Ea_input, T_sim    whole J/mol and whole kelvin                       *)
(*   the exp argument   in units of 1/XScale                               *)
(*   exp                in units of 1/ExpScale                             *)
(*   a rate constant k  in units of 1/KScale, KScale = AScale*ExpScale     *)
(*   a concentration    in units of 1/ConcScale (0.0500 is 500)            *)
(*   a time             in whole seconds                                   *)
(* A double is a pair <<class, value>>: <<"fin", v>>, <<"inf", +-1>>,      *)
(* <<"nan", 0>>; <<"unset", 0>> is a name the run has not bound yet.       *)
(***************************************************************************)
EXTENDS Integers, Sequences, FiniteSets, TLC

\* ---------------------------------------------------------------- scales
AScale == 2
XScale == 40
ExpScale == 1000
ConcScale == 10000
KScale == AScale * ExpScale
\* 1 + k*C*dt is formed in units of 1/FlowScale (KScale*ConcScale, cut by
\* FlowCut to stay inside TLC's 32-bit integers).
FlowCut == 100
FlowScale == (KScale * ConcScale) \div FlowCut

\* ---------------------------------------------------------------- doubles
Fin(v) == <<"fin", v>>
PosInf == <<"inf", 1>>
NegInf == <<"inf", -1>>
NaN == <<"nan", 0>>
Unset == <<"unset", 0>>
IsFin(f) == f[1] = "fin"

\* floor(a / b) for b # 0 of either sign.
FloorDiv(a, b) == IF b > 0 THEN a \div b ELSE (-a) \div (-b)

\* R = 8.314 (line 594), as RNum / RDen.
RNum == 8314
RDen == 1000

\* -Ea / (R * T), in units of 1/XScale (line 595, line 651); T # 0.
ExpArg(Ea, T) == FloorDiv(-(Ea * RDen * XScale), RNum * T)

\* np.exp: e as ENum / EDen; an argument above ln of the largest double
\* (709.78, LnMaxDoubleNum / LnMaxDoubleDen) overflows to +inf.
ENum == 2718
EDen == 1000
LnMaxDoubleNum == 70978
LnMaxDoubleDen == 100
ExpOverflowArg == (LnMaxDoubleNum * XScale) \div LnMaxDoubleDen

\* exp(r / XScale) for 0 <= r < XScale: the Taylor series to the fifth
\* power in Horner form, rounded down after each step.
ExpFrac(r) ==
    LET h5 == ExpScale + (r * ExpScale) \div (XScale * 5)
        h4 == ExpScale + (r * h5) \div (XScale * 4)
        h3 == ExpScale + (r * h4) \div (XScale * 3)
        h2 == ExpScale + (r * h3) \div (XScale * 2)
    IN  ExpScale + (r * h2) \div XScale

\* v * e^q for a whole q, one factor e at a time.
RECURSIVE ExpWhole(_, _)
ExpWhole(q, v) ==
    IF q = 0 \/ v = 0 THEN v
    ELSE IF q > 0 THEN ExpWhole(q - 1, (v * ENum) \div EDen)
    ELSE ExpWhole(q + 1, (v * EDen) \div ENum)

\* exp(n / XScale) in units of 1/ExpScale, n <= ExpOverflowArg.
ExpFx(n) == ExpWhole(n \div XScale, ExpFrac(n % XScale))

np_exp(n) == IF n > ExpOverflowArg THEN PosInf ELSE Fin(ExpFx(n))

\* a * e for a finite a (in 1/AScale) and e = np.exp(...): the product of
\* doubles, 0 * inf being nan.
FMul(a, e) ==
    IF IsFin(e) THEN Fin(a * e[2])
    ELSE IF a > 0 THEN PosInf
    ELSE IF a < 0 THEN NegInf
    ELSE NaN

\* A * np.exp(-Ea / (R * T)) (lines 595 and 651), T # 0.
\* Variants of Arrhenius: the sign of A lost; R rounded to 8.
ArrheniusNegated(A, Ea, T) == FMul(-A, np_exp(ExpArg(Ea, T)))
ArrheniusRoundedR(A, Ea, T) == FMul(A, np_exp(FloorDiv(-(Ea * XScale), 8 * T)))
Arrhenius(A, Ea, T) == FMul(A, np_exp(ExpArg(Ea, T)))


\* Variant of FGt1: k >= 1.
FGe1(k) ==
    IF IsFin(k) THEN k[2] >= KScale
    ELSE k = PosInf
\* k > 1 on doubles (line 598): false for nan and -inf.
FGt1(k) ==
    IF IsFin(k) THEN k[2] > KScale
    ELSE k = PosInf

\* ------------------------------------------------- the f-string of line 596
RECURSIVE NumDigits(_)
NumDigits(n) == IF n < 10 THEN 1 ELSE 1 + NumDigits(n \div 10)

RECURSIVE Pow10(_)
Pow10(d) == IF d = 0 THEN 1 ELSE 10 * Pow10(d - 1)

\* f"{k:.2e}": three significant digits, <<sign, mantissa, exponent>> with
\* the mantissa in 100..999 standing for d.dd (0 for zero); "inf" and "nan"
\* print as such.
Fmt2e(k) ==
    IF ~IsFin(k) THEN <<k[1], k[2], 0>>
    ELSE LET w == (k[2] * 10000) \div KScale      \* |w| / 10^4 is the value
             a == IF w < 0 THEN -w ELSE w
             s == IF w < 0 THEN "-" ELSE "+"
             d == NumDigits(a)
             cut == Pow10(d - 3)
             m == (a + cut \div 2) \div cut
         IN  IF a = 0 THEN <<s, 0, 0>>
             ELSE IF d <= 3 THEN <<s, a * Pow10(3 - d), d - 5>>
             ELSE IF m = 1000 THEN <<s, 100, d - 4>>
             ELSE <<s, m, d - 5>>
NoMetric == <<"none", 0, 0>>

\* ------------------------------------------------------ data_sets (602-623)
\* Variant of T7: the last sample left out.
T6 == <<0, 480, 960, 1440, 1920, 2400>>
T7 == <<0, 480, 960, 1440, 1920, 2400, 2880>>
Cond(l, c) == [label |-> l, time_exp |-> T7, conc_exp |-> c]
data_sets(p) ==
    CASE p = "Temperature" ->
           << Cond(<<"2","9","3","K">>, <<500, 333, 233, 178, 156, 144, 125>>),
              Cond(<<"3","0","3","K">>, <<500, 256, 189, 144, 122, 100, 78>>),
              Cond(<<"3","1","3","K">>, <<500, 200, 133, 100, 83, 67, 61>>) >>
      [] p = "Volume" ->
           << Cond(<<"1",".","2","L">>, <<500, 222, 156, 128, 100, 89, 83>>),
              Cond(<<"1",".","4","L">>, <<500, 289, 222, 178, 156, 144, 133>>),
              Cond(<<"1",".","8","L">>, <<500, 670, 289, 256, 222, 200, 167>>) >>
      [] p = "Agitation Rate" ->
           << Cond(<<"7","0","r","p","m">>, <<500, 189, 133, 100, 78, 67, 56>>),
              Cond(<<"1","1","0","r","p","m">>, <<500, 256, 189, 156, 128, 111, 100>>),
              Cond(<<"1","5","0","r","p","m">>, <<500, 333, 267, 222, 200, 178, 156>>) >>
      [] p = "Initial Concentration" ->
           << Cond(<<"0",".","0","2","5","M">>, <<500, 360, 260, 200, 160, 120, 111>>),
              Cond(<<"0",".","0","5","0","M">>, <<500, 389, 300, 244, 211, 189, 167>>),
              Cond(<<"0",".","0","7","5","M">>, <<500, 392, 313, 256, 222, 200, 178>>) >>
Parameters == {"Temperature", "Volume", "Agitation Rate", "Initial Concentration"}
exp_colors == <<"red", "green", "blue">>
sim_colors == <<"orange", "lime", "deepskyblue">>

\* ------------------------------------------ int(label.replace("K", "")) (650)
str_replace_K(s) == SelectSeq(s, LAMBDA ch : ch # "K")
DigitChars == <<"0", "1", "2", "3", "4", "5", "6", "7", "8", "9">>
IsDigit(ch) == \E d \in 1..10 : DigitChars[d] = ch
DigitVal(ch) == (CHOOSE d \in 1..10 : DigitChars[d] = ch) - 1
\* int() raises ValueError unless the text is a run of digits.
IsIntLiteral(s) == Len(s) > 0 /\ \A j \in 1..Len(s) : IsDigit(s[j])
RECURSIVE IntOf(_)
IntOf(s) ==
    IF Len(s) = 0 THEN 0
    ELSE 10 * IntOf(SubSeq(s, 1, Len(s) - 1)) + DigitVal(s[Len(s)])

\* np.array(time) / 60 (lines 630, 656): every time of data_sets is a whole
\* number of minutes.
Minutes(t) == [j \in 1..Len(t) |-> t[j] \div 60]

\* --------------------------------------------------- the solver (645, 655)
\* def ode_model(C, t, k): return -k * C**2, in units of
\* 1/(FlowScale*ConcScale) per second.
\* Variant of ode_model: the sign of the rate lost.
ode_model_growth(C, t, k) == ((k * C) \div FlowCut) * C
ode_model(C, t, k) == -(((k * C) \div FlowCut) * C)

\* A solution that passes ConcLimit is on its way to the singularity of
\* dC/dt = -k*C**2 at t = -1/(k*C0); the model follows it no further.
ConcLimit == ConcScale \div 2
Lost == [ok |-> FALSE, v |-> 0]

\* The state dt seconds after state c: odeint controls its error to 1.5e-8,
\* below 1/ConcScale, so a step of it is the exact flow of the right-hand
\* side it is given, c / (1 - dt * f(c) / c), rounded down.
Flow(c, dt, k) ==
    LET f == ode_model(c, 0, k)
        g == IF c = 0 THEN 0 ELSE FloorDiv(-f, c)
        den == FlowScale + dt * g
        n == FloorDiv(c * FlowScale, den)
    IN  IF den <= 0 THEN Lost
        ELSE IF n > ConcLimit \/ n < -ConcLimit THEN Lost
        ELSE [ok |-> TRUE, v |-> n]

\* Rows i..Len(t) of odeint's result, row i-1 being c.  Once the solver has
\* lost the solution (ok is false) the rows it leaves are not determined by
\* the script: each is the value g.
RECURSIVE Rows(_, _, _, _, _, _)
Rows(c, ok, t, i, k, g) ==
    IF i > Len(t) THEN <<>>
    ELSE LET n == IF ok THEN Flow(c, t[i] - t[i - 1], k) ELSE Lost
         IN  IF n.ok THEN <<n.v>> \o Rows(n.v, TRUE, t, i + 1, k, g)
             ELSE <<g>> \o Rows(c, FALSE, t, i + 1, k, g)

\* odeint raises ValueError unless t is monotonic, in either direction.
Monotone(t) ==
    \/ \A j \in 1..(Len(t) - 1) : t[j] <= t[j + 1]
    \/ \A j \in 1..(Len(t) - 1) : t[j] >= t[j + 1]

\* What a lost row may hold.
Undetermined == {-1, 0}

\* Variant of OdeintOutcomes: the integration started at t = 0, not at t[0].
OdeintFromZero(y0, t, k) ==
    { Rows(y0, IsFin(k), <<0>> \o t, 2, k[2], g) : g \in Undetermined }
\* odeint(ode_model, y0, t, args=(k,)).flatten() for a monotonic t: the
\* first row is y0 at t[0], wherever t[0] is; a k that is not finite loses
\* the solution at once.
OdeintOutcomes(y0, t, k) ==
    { <<y0>> \o Rows(y0, IsFin(k), t, 2, k[2], g) : g \in Undetermined }

\* ------------------------------------------------------------ bounds
\* The values the user types into the sidebar's number inputs.
MaxA == 3
AValues == -1..MaxA
EaDefault == 43094
EaValues == {-6000, 0, 6000, EaDefault}
TDefault == 298
TValues == {-1, 0, 1, 293, TDefault, 303, 313}
\* Inputs of the integration step taken on its own.
MaxLen == 3
KTimePoints == {-240, 0, 240, 480}
KTimes == UNION { [1..n -> KTimePoints] : n \in 1..MaxLen }
KC0Values == {-ConcScale, -500, 0, 250, 500}
KkValues == {Fin(-(KScale \div 1000)), Fin(0), Fin(KScale \div 1000),
             Fin(KScale \div 20), Fin(KScale)}

\* ------------------------------------------------------------- state
VARIABLES
    parameter, A_input, Ea_input, T_sim,   \* the sidebar widgets (589-592)
    pc,            \* where the run of the script stands
    k_sim,         \* line 595
    metric,        \* the sidebar's "Calculated Rate Constant" (596)
    warned,        \* st.warning was shown (599)
    remaining,     \* conditions of data_sets[parameter] the loop has yet to take
    cur,           \* the condition the loop is at (0: none)
    C0, time_sim_sec, temp_val, k_temp, conc_sim,   \* lines 646-655
    fig,           \* the traces added to the figure (634, 658)
    sim_args,      \* the arguments of each odeint call made (655)
    plotted,       \* the traces st.plotly_chart drew (679)
    exception      \* the exception that ended the run ("none": none)

widgets == <<parameter, A_input, Ea_input, T_sim>>
run == <<pc, k_sim, metric, warned, remaining, cur, C0, time_sim_sec,
         temp_val, k_temp, conc_sim, fig, sim_args, plotted, exception>>
vars == <<widgets, run>>

\* Variant of FreshRun: a bound k_sim kept across runs.
FreshRunCached ==
    /\ pc' = IF k_sim = Unset THEN "start" ELSE "warn"
    /\ UNCHANGED <<k_sim, metric>> /\ warned' = FALSE
    /\ remaining' = {} /\ cur' = 0
    /\ C0' = 0 /\ time_sim_sec' = <<>> /\ temp_val' = 0 /\ k_temp' = Unset
    /\ conc_sim' = <<>>
    /\ fig' = <<>> /\ sim_args' = <<>> /\ plotted' = <<>>
    /\ exception' = "none"
\* A run of the script starts with no name bound and an empty page.  (An
\* unbound number is written 0 and an unbound array <<>>; the script reads
\* no name before binding it.)
FreshRun ==
    /\ pc' = "start"
    /\ k_sim' = Unset /\ metric' = NoMetric /\ warned' = FALSE
    /\ remaining' = {} /\ cur' = 0
    /\ C0' = 0 /\ time_sim_sec' = <<>> /\ temp_val' = 0 /\ k_temp' = Unset
    /\ conc_sim' = <<>>
    /\ fig' = <<>> /\ sim_args' = <<>> /\ plotted' = <<>>
    /\ exception' = "none"

\* The first run: every widget at its default (589-592).
Init ==
    /\ parameter = "Temperature" /\ A_input = 1
    /\ Ea_input = EaDefault /\ T_sim = TDefault
    /\ pc = "start"
    /\ k_sim = Unset /\ metric = NoMetric /\ warned = FALSE
    /\ remaining = {} /\ cur = 0
    /\ C0 = 0 /\ time_sim_sec = <<>> /\ temp_val = 0 /\ k_temp = Unset
    /\ conc_sim = <<>>
    /\ fig = <<>> /\ sim_args = <<>> /\ plotted = <<>>
    /\ exception = "none"

\* ------------------------------------------------- the user (589-592)
\* Changing a widget ends the run in progress and runs the script again from
\* the top with the new value.
SelectParameter ==
    \E p \in Parameters \ {parameter} :
        parameter' = p /\ UNCHANGED <<A_input, Ea_input, T_sim>> /\ FreshRun

SetA ==
    \E a \in AValues \ {A_input} :
        A_input' = a /\ UNCHANGED <<parameter, Ea_input, T_sim>> /\ FreshRun

SetEa ==
    \E e \in EaValues \ {Ea_input} :
        Ea_input' = e /\ UNCHANGED <<parameter, A_input, T_sim>> /\ FreshRun

SetT ==
    \E t \in TValues \ {T_sim} :
        T_sim' = t /\ UNCHANGED <<parameter, A_input, Ea_input>> /\ FreshRun

\* ------------------------------------------------- the script (594-679)
\* Variant of ComputeK: a division by zero leaves k_sim nan and the script
\* goes on to the loop.
ComputeKDeferred ==
    /\ pc = "start"
    /\ k_sim' = IF T_sim = 0 THEN NaN ELSE Arrhenius(A_input, Ea_input, T_sim)
    /\ metric' = Fmt2e(k_sim')
    /\ pc' = "warn"
    /\ UNCHANGED <<widgets, warned, remaining, cur, C0, time_sim_sec, temp_val,
                   k_temp, conc_sim, fig, sim_args, plotted, exception>>

\* Variant of ComputeK: the division by zero caught and k_sim set to 0.
ComputeKRecover ==
    /\ pc = "start"
    /\ k_sim' = IF T_sim = 0 THEN Fin(0) ELSE Arrhenius(A_input, Ea_input, T_sim)
    /\ metric' = Fmt2e(k_sim')
    /\ pc' = "warn"
    /\ UNCHANGED <<widgets, warned, remaining, cur, C0, time_sim_sec, temp_val,
                   k_temp, conc_sim, fig, sim_args, plotted, exception>>
\* Lines 594-596.  -Ea_input / (R * T_sim) on Python floats raises
\* ZeroDivisionError for T_sim = 0; nothing catches it and the run ends.
ComputeK ==
    /\ pc = "start"
    /\ IF T_sim = 0
       THEN /\ pc' = "error" /\ exception' = "ZeroDivisionError"
            /\ UNCHANGED <<k_sim, metric>>
       ELSE /\ k_sim' = Arrhenius(A_input, Ea_input, T_sim)
            /\ metric' = Fmt2e(k_sim')
            /\ pc' = "warn"
            /\ UNCHANGED exception
    /\ UNCHANGED <<widgets, warned, remaining, cur, C0, time_sim_sec, temp_val,
                   k_temp, conc_sim, fig, sim_args, plotted>>

\* Lines 598-629: the warning, then the loop over data_sets[parameter].
Warn ==
    /\ pc = "warn"
    /\ warned' = FGt1(k_sim)
    /\ remaining' = 1..Len(data_sets(parameter))
    /\ pc' = "loop"
    /\ UNCHANGED <<widgets, k_sim, metric, cur, C0, time_sim_sec, temp_val,
                   k_temp, conc_sim, fig, sim_args, plotted, exception>>

\* Variants of TryBlock: a label's rate constant taken at T_sim; the except
\* leaving k_temp as it was; the except setting it to 0.
TryBlockSimTemp(label) ==
    LET s == str_replace_K(label)
    IN  IF IsIntLiteral(s) /\ IntOf(s) # 0
        THEN <<IntOf(s), Arrhenius(A_input, Ea_input, T_sim)>>
        ELSE <<temp_val, k_sim>>
TryBlockStale(label) ==
    LET s == str_replace_K(label)
    IN  IF IsIntLiteral(s) /\ IntOf(s) # 0
        THEN <<IntOf(s), Arrhenius(A_input, Ea_input, IntOf(s))>>
        ELSE <<temp_val, k_temp>>
TryBlockZero(label) ==
    LET s == str_replace_K(label)
    IN  IF IsIntLiteral(s) /\ IntOf(s) # 0
        THEN <<IntOf(s), Arrhenius(A_input, Ea_input, IntOf(s))>>
        ELSE <<temp_val, Fin(0)>>
\* The try block of lines 649-653 for a label: <<temp_val, k_temp>> after it.
\* A label that is no integer once its "K" is dropped raises ValueError in
\* int(); temp_val keeps its value and the bare except sets k_temp = k_sim.
\* (A parsed temperature of 0 would raise ZeroDivisionError to the same
\* except.)
TryBlock(label) ==
    LET s == str_replace_K(label)
    IN  IF IsIntLiteral(s)
        THEN IF IntOf(s) = 0 THEN <<0, k_sim>>
             ELSE <<IntOf(s), Arrhenius(A_input, Ea_input, IntOf(s))>>
        ELSE <<temp_val, k_sim>>

\* Variant of CondSetup: C0 read from the second sample, conc_exp[1] of a
\* list counted from 0.
CondSetupSecond(i) ==
    LET c == data_sets(parameter)[i]
        tb == TryBlock(c.label)
    IN  /\ cur' = i
        /\ fig' = Append(fig, [name |-> <<"Exp", c.label>>,
                               x |-> Minutes(c.time_exp), y |-> c.conc_exp,
                               color |-> exp_colors[i]])
        /\ C0' = c.conc_exp[2]
        /\ time_sim_sec' = c.time_exp
        /\ temp_val' = tb[1]
        /\ k_temp' = tb[2]
        /\ pc' = "odeint"
        /\ UNCHANGED <<widgets, k_sim, metric, warned, remaining, conc_sim,
                       sim_args, plotted, exception>>

\* Lines 629-653 for condition i (counted from 1): the experimental trace,
\* C0, the time samples, and the condition's rate constant.
CondSetup(i) ==
    LET c == data_sets(parameter)[i]
        tb == TryBlock(c.label)
    IN  /\ cur' = i
        /\ fig' = Append(fig, [name |-> <<"Exp", c.label>>,
                               x |-> Minutes(c.time_exp), y |-> c.conc_exp,
                               color |-> exp_colors[i]])
        /\ C0' = c.conc_exp[1]
        /\ time_sim_sec' = c.time_exp
        /\ temp_val' = tb[1]
        /\ k_temp' = tb[2]
        /\ pc' = "odeint"
        /\ UNCHANGED <<widgets, k_sim, metric, warned, remaining, conc_sim,
                       sim_args, plotted, exception>>

\* The for statement of line 629 takes the conditions in the order data_sets
\* lists them.
BeginCond ==
    /\ pc = "loop" /\ remaining # {}
    /\ CondSetup(CHOOSE i \in remaining : \A j \in remaining : i <= j)

\* Variant of OdeintCall: no test of t.
OdeintCallUnchecked(y0, t, k) ==
    { <<"ok", y>> : y \in OdeintOutcomes(y0, t, k) }
\* The call of line 655 on its arguments: <<"ValueError">> when odeint
\* refuses them, else <<"ok", y>> for each result y it may give.
OdeintCall(y0, t, k) ==
    IF ~Monotone(t) THEN {<<"ValueError", <<>>>>}
    ELSE { <<"ok", y>> : y \in OdeintOutcomes(y0, t, k) }

\* Lines 655-667: the simulated curve of the condition and its trace.
SimulateCond ==
    /\ pc = "odeint"
    /\ \E r \in OdeintCall(C0, time_sim_sec, k_temp) :
        IF r[1] = "ok"
        THEN /\ conc_sim' = r[2]
             /\ sim_args' = Append(sim_args,
                    [label |-> data_sets(parameter)[cur].label,
                     y0 |-> C0, t |-> time_sim_sec, k |-> k_temp])
             /\ fig' = Append(fig,
                    [name |-> <<"Sim", data_sets(parameter)[cur].label>>,
                     x |-> Minutes(time_sim_sec), y |-> r[2],
                     color |-> sim_colors[cur]])
             /\ remaining' = remaining \ {cur}
             /\ pc' = "loop"
             /\ UNCHANGED exception
        ELSE /\ pc' = "error" /\ exception' = r[1]
             /\ UNCHANGED <<conc_sim, sim_args, fig, remaining>>
    /\ UNCHANGED <<widgets, k_sim, metric, warned, cur, C0, time_sim_sec,
                   temp_val, k_temp, plotted>>

\* Lines 669-679: the loop is over and the figure is drawn.
Finish ==
    /\ pc = "loop" /\ remaining = {}
    /\ plotted' = fig
    /\ pc' = "done"
    /\ UNCHANGED <<widgets, k_sim, metric, warned, remaining, cur, C0,
                   time_sim_sec, temp_val, k_temp, conc_sim, fig, sim_args,
                   exception>>

Next ==
    \/ SelectParameter \/ SetA \/ SetEa \/ SetT
    \/ ComputeK \/ Warn \/ BeginCond \/ SimulateCond \/ Finish

Spec == Init /\ [][Next]_vars

\* ------------------------------------- the conditions taken in any order
\* The loop body run on the conditions of the view in an order of the
\* scheduler's choosing, the script's names shared as they are.
BeginCondAny ==
    /\ pc = "loop" /\ remaining # {}
    /\ \E i \in remaining : CondSetup(i)

NextAnyOrder ==
    \/ SelectParameter \/ SetA \/ SetEa \/ SetT
    \/ ComputeK \/ Warn \/ BeginCondAny \/ SimulateCond \/ Finish

SpecAnyOrder == Init /\ [][NextAnyOrder]_vars

\* --------------------------- the integration step on a caller's inputs
\* Line 655 as the operation integrate_trajectory(C0, k, time_samples): the
\* state before the call holds any C0, k and time samples of the bounds.
KInit ==
    /\ parameter = "Temperature" /\ A_input = 1
    /\ Ea_input = EaDefault /\ T_sim = TDefault
    /\ pc = "call"
    /\ k_sim = Unset /\ metric = NoMetric /\ warned = FALSE
    /\ remaining = {} /\ cur = 0
    /\ C0 \in KC0Values /\ time_sim_sec \in KTimes /\ k_temp \in KkValues
    /\ temp_val = 0 /\ conc_sim = <<>>
    /\ fig = <<>> /\ sim_args = <<>> /\ plotted = <<>>
    /\ exception = "none"

Integrate ==
    /\ pc = "call"
    /\ \E r \in OdeintCall(C0, time_sim_sec, k_temp) :
        IF r[1] = "ok"
        THEN /\ conc_sim' = r[2] /\ pc' = "returned" /\ UNCHANGED exception
        ELSE /\ pc' = "error" /\ exception' = r[1] /\ UNCHANGED conc_sim
    /\ UNCHANGED <<widgets, k_sim, metric, warned, remaining, cur, C0,
                   time_sim_sec, temp_val, k_temp, fig, sim_args, plotted>>

KNext == Integrate

SpecKernel == KInit /\ [][KNext]_vars

\* ============================================================ properties
\* A * exp(-Ea / (R * T)) with R written out as 8.314.
RateFormula(A, Ea, T) ==
    FMul(A, np_exp(FloorDiv(-(Ea * 1000 * XScale), 8314 * T)))
Overflows(Ea, T) == FloorDiv(-(Ea * 1000 * XScale), 8314 * T) > ExpOverflowArg
NonNegative(k) == (IsFin(k) /\ k[2] >= 0) \/ k = PosInf
\* The temperature a Temperature-view label names.
LabelKelvin(label) == IntOf(str_replace_K(label))
TempLabel(label) == IsIntLiteral(str_replace_K(label))
SimTraces == SelectSeq(fig, LAMBDA tr : tr.name[1] = "Sim")
CondOf(label) ==
    CHOOSE c \in { data_sets(parameter)[i] : i \in 1..Len(data_sets(parameter)) } :
        c.label = label
Ascending(t) == \A j \in 1..(Len(t) - 1) : t[j] <= t[j + 1]
Descending(t) == \A j \in 1..(Len(t) - 1) : t[j] >= t[j + 1]
NoNegative(t) == \A j \in 1..Len(t) : t[j] >= 0

C2_ZeroTemperature ==
    /\ (T_sim = 0 /\ pc # "start") =>
          /\ pc = "error" /\ exception = "ZeroDivisionError"
          /\ k_sim = Unset /\ metric = NoMetric /\ k_temp = Unset
          /\ fig = <<>> /\ sim_args = <<>> /\ plotted = <<>>
    /\ exception = "ZeroDivisionError" => T_sim = 0

\* C2 witness: a run ended by the division by zero.
C2_Witness == T_sim = 0 /\ pc = "error" /\ exception = "ZeroDivisionError"

DecayedFromZero(c0, k, t) ==
    (c0 * FlowScale) \div (FlowScale + t * ((k * c0) \div FlowCut))

RateOrder(le(_, _)) ==
    (A_input >= 0 /\ Ea_input > 0 /\ parameter = "Temperature") =>
        /\ \A i, j \in 1..Len(sim_args) :
              LabelKelvin(sim_args[i].label) < LabelKelvin(sim_args[j].label) =>
                  /\ IsFin(sim_args[i].k) /\ IsFin(sim_args[j].k)
                  /\ le(sim_args[i].k[2], sim_args[j].k[2])
        /\ (pc = "odeint" /\ T_sim > 0) =>
              /\ IsFin(k_sim) /\ IsFin(k_temp)
              /\ temp_val < T_sim => le(k_temp[2], k_sim[2])
              /\ T_sim < temp_val => le(k_sim[2], k_temp[2])

\* C7 as stated: for A >= 0 and Ea > 0 the rate constant is finite and
\* decreasing in T over T > 0: the k of a higher temperature is not larger.
C7_AsStated == RateOrder(LAMBDA lo, hi : hi <= lo)

\* C7 amended: for A >= 0 and Ea > 0 the rate constant is finite and
\* monotonically non-decreasing in T over T > 0: for T1 < T2 the rate
\* constant at T2 is not smaller than at T1 (the k of the 313K curve is no
\* smaller than the k of the 293K curve).
C7_IncreasingInT ==
    /\ RateOrder(LAMBDA lo, hi : lo <= hi)
    /\ (A_input >= 0 /\ Ea_input > 0 /\ T_sim > 0 /\ k_sim # Unset) =>
          (IsFin(k_sim) /\ k_sim[2] >= 0)

\* C7 witness: the Temperature view drawn with the k of 313K above the k of
\* 293K.
C7_Witness ==
    /\ pc = "done" /\ parameter = "Temperature" /\ Len(sim_args) = 3
    /\ A_input > 0 /\ Ea_input > 0 /\ T_sim > 0
    /\ sim_args[1].k[2] < sim_args[2].k[2]
    /\ sim_args[2].k[2] < sim_args[3].k[2]

\* ---- C8
\* The rate constant of a condition, from the inputs and its label alone.
CondRate(label) ==
    IF TempLabel(label)
    THEN RateFormula(A_input, Ea_input, LabelKelvin(label))
    ELSE RateFormula(A_input, Ea_input, T_sim)

C9_FallbackToKSim ==
    parameter # "Temperature" =>
        /\ \A i \in 1..Len(data_sets(parameter)) :
              ~TempLabel(data_sets(parameter)[i].label)
        /\ T_sim # 0 => (pc # "error" /\ exception = "none")
        /\ pc = "odeint" => (k_temp = k_sim /\ temp_val = 0)
        /\ \A j \in 1..Len(sim_args) :
              /\ sim_args[j].k = k_sim
              /\ sim_args[j].k = RateFormula(A_input, Ea_input, T_sim)

\* C9 witness: the Volume view drawn, its three calls made with a positive
\* k_sim.
C9_Witness ==
    /\ pc = "done" /\ parameter = "Volume" /\ Len(sim_args) = 3
    /\ IsFin(k_sim) /\ k_sim[2] > 0
    /\ \A j \in 1..3 : sim_args[j].k = k_sim

\* ---- C10
\* The state part of C10: whatever was changed before, a bound k_sim is the formula at the
\* widgets' present A, Ea and T, the sidebar shows that value, and every
\* call of the run was made with a rate constant of the present A and Ea.
C10_Current ==
    /\ k_sim # Unset =>
          /\ T_sim # 0
          /\ k_sim = RateFormula(A_input, Ea_input, T_sim)
          /\ metric = Fmt2e(RateFormula(A_input, Ea_input, T_sim))
    /\ k_sim = Unset => (metric = NoMetric /\ sim_args = <<>>)
    /\ \A j \in 1..Len(sim_args) : sim_args[j].k = CondRate(sim_args[j].label)

\* C10: the rate constant is never a cached one: in every state it is the
\* formula at the present inputs (C10_Current), and every change of A, Ea or
\* T unbinds the rate constant of the run before it and starts the script
\* again, which computes it anew.
C10_NeverStale ==
    /\ []C10_Current
    /\ [][<<A_input, Ea_input, T_sim>>' # <<A_input, Ea_input, T_sim>> =>
            (k_sim' = Unset /\ metric' = NoMetric /\ pc' = "start")]_vars

\* C10 witness: A, Ea and T have all been changed and the view is drawn
\* with a rate constant that is not the one of the defaults.
C10_Witness ==
    /\ pc = "done" /\ A_input # 1 /\ Ea_input # EaDefault /\ T_sim # TDefault
    /\ IsFin(k_sim) /\ k_sim[2] > 0
    /\ k_sim # RateFormula(1, EaDefault, TDefault)
    /\ Len(sim_args) = 3

\* ---- C11
\* C11 as the specification has it: no view has more than three conditions,
\* and every condition's time samples, every call's time samples and every
\* simulated trace have 6 points.
C11_AsStated ==
    /\ \A p \in Parameters :
          /\ Len(data_sets(p)) <= 3
          /\ \A i \in 1..Len(data_sets(p)) : Len(data_sets(p)[i].time_exp) = 6
    /\ pc = "odeint" => Len(time_sim_sec) = 6
    /\ \A j \in 1..Len(sim_args) : Len(sim_args[j].t) = 6
    /\ \A j \in 1..Len(SimTraces) : Len(SimTraces[j].y) = 6

\* C11: no view has more than three conditions, a run makes at most three
\* calls, and every condition's time samples are the 7 points 0, 480, ...,
\* 2880 s: every call integrates over these 7 points and every simulated
\* trace has 7 points.
C11_SamplePoints ==
    /\ \A p \in Parameters :
          /\ Len(data_sets(p)) <= 3
          /\ \A i \in 1..Len(data_sets(p)) :
                /\ Len(data_sets(p)[i].time_exp) = 7
                /\ Len(data_sets(p)[i].conc_exp) = 7
                /\ \A n \in 1..7 : data_sets(p)[i].time_exp[n] = 480 * (n - 1)
    /\ Len(sim_args) <= 3 /\ Len(SimTraces) <= 3
    /\ pc = "odeint" => Len(time_sim_sec) = 7
    /\ \A j \in 1..Len(sim_args) : Len(sim_args[j].t) = 7
    /\ \A j \in 1..Len(SimTraces) :
          Len(SimTraces[j].x) = 7 /\ Len(SimTraces[j].y) = 7
    /\ pc = "done" => Len(sim_args) = Len(data_sets(parameter))

\* C11 witness: a view drawn, its three curves integrated over 7 points
\* each.
C11_Witness ==
    /\ pc = "done" /\ Len(sim_args) = 3 /\ Len(SimTraces) = 3
    /\ \A j \in 1..3 : Len(sim_args[j].t) = 7 /\ Len(SimTraces[j].y) = 7
    /\ sim_args[1].t[7] = 2880

\* ---- C12
\* The trajectories a Temperature-view condition may show: a function of A,
\* Ea and the label, with no T_sim in it.
TemperatureCurves(A, Ea, label) ==
    OdeintOutcomes(500, T7, RateFormula(A, Ea, LabelKelvin(label)))

C13_AdvisoryWarning ==
    /\ pc \in {"loop", "odeint", "done"} =>
          (warned <=> (\/ k_sim = PosInf
                       \/ k_sim[1] = "fin" /\ k_sim[2] >= KScale + 1))
    /\ pc \in {"start", "warn", "error"} => ~warned
    /\ warned => (pc # "error" /\ exception = "none")
    /\ pc = "odeint" =>
          \A r \in OdeintCall(C0, time_sim_sec, k_temp) : r[1] = "ok"
    /\ \A j \in 1..Len(sim_args) :
          LET a == sim_args[j]
              c == CondOf(a.label)
          IN  /\ a.y0 = c.conc_exp[1] /\ a.t = c.time_exp
              /\ a.k = CondRate(a.label)
              /\ SimTraces[j].y \in OdeintOutcomes(c.conc_exp[1], c.time_exp,
                                                   CondRate(a.label))
    /\ pc = "done" =>
          /\ plotted = fig
          /\ Len(fig) = 2 * Len(data_sets(parameter))
          /\ \A i \in 1..Len(data_sets(parameter)) :
                /\ fig[2 * i - 1].name = <<"Exp", data_sets(parameter)[i].label>>
                /\ fig[2 * i].name = <<"Sim", data_sets(parameter)[i].label>>
                /\ Len(fig[2 * i].y) = Len(data_sets(parameter)[i].time_exp)

\* C13 witness: a run that warned and drew all three decaying curves of its
\* view.
C13_Witness ==
    /\ pc = "done" /\ warned /\ IsFin(k_sim)
    /\ Len(SimTraces) = 3 /\ Len(plotted) = 6
    /\ \A j \in 1..3 : SimTraces[j].y[7] < SimTraces[j].y[1]

\* ---- C14
\* C14: while T_sim is 0 the script is at its start or stopped at line 595
\* with no condition taken, no call made and no trace, experimental or
\* simulated, in the figure or on the page, in every view; and a run that
\* stopped with an error stopped there, so no run has the traces of some
\* conditions and an error for the others.
C14_TotalFailure ==
    /\ T_sim = 0 =>
          /\ pc \in {"start", "error"}
          /\ remaining = {} /\ cur = 0 /\ ~warned
          /\ conc_sim = <<>> /\ Len(fig) = 0 /\ Len(sim_args) = 0
          /\ Len(plotted) = 0
    /\ pc = "error" =>
          /\ T_sim = 0 /\ cur = 0 /\ k_sim = Unset
          /\ Len(fig) = 0 /\ Len(plotted) = 0
    /\ Len(fig) > 0 => (T_sim # 0 /\ exception = "none")

\* C14 witness: the Temperature view, whose curves use no k_sim, stopped at
\* T_sim = 0 with an empty figure.
C14_Witness ==
    /\ parameter = "Temperature" /\ T_sim = 0
    /\ pc = "error" /\ exception = "ZeroDivisionError"
    /\ Len(fig) = 0

====
